---- MODULE Spec2Model ----
(***************************************************************************)
(* FinancePlotter: the Chart object (charts/base.py), the chart factories, *)
(* the technical indicators (indicators/technical.py) and the usage script *)
(* (examples/app.py).                                                      *)
(*                                                                         *)
(* Real numbers are exact rationals <<n, d>> (d > 0, lowest terms); the    *)
(* rounding of IEEE doubles is not modelled.  Series are 1-indexed: the    *)
(* position i of the code is position i+1 here.                            *)
(***************************************************************************)
EXTENDS Integers, Sequences, FiniteSets, TLC

VARIABLES data, chart, err, files, shown, last, pc

vars == <<data, chart, err, files, shown, last, pc>>

-----------------------------------------------------------------------------
(* Bounds *)

DataLen == 3
MaxPrice == 2
MaxPeriod == 3
MaxStdDev == 2
MaxShown == 1
MainDataLen == 6

Periods == 1..MaxPeriod
StdDevs == 0..MaxStdDev
Titles == {"None", "T"}
Filenames == {"a.html"}
Columns == {"Close"}
IndicatorLists == {<<>>, <<"sma", "rsi">>}

-----------------------------------------------------------------------------
(* Python values *)

None == "None"

(* a float that is not a number, and infinity, beside the rationals <<n, d>> *)
NaN == <<0, 0>>
Inf == <<1, 0>>

(* Chart.fig before a figure is assigned; the program before a chart exists *)
NoFig == [kind |-> "None"]
NoChart == [kind |-> "NoChart"]
NoCall == [op |-> "none", args |-> <<>>, ret |-> None]

(* `if self.fig:` / `if not chart.fig:` -- None is false, a Figure is true *)
truthy(fig) == fig.kind # "None"

-----------------------------------------------------------------------------
(* Exact rational arithmetic *)

Abs(n) == IF n < 0 THEN -n ELSE n

RECURSIVE GCD(_, _)
GCD(a, b) == IF b = 0 THEN a ELSE GCD(b, a % b)

Norm(r) ==
    LET g == GCD(Abs(r[1]), r[2])
    IN  IF r[1] = 0 THEN <<0, 1>> ELSE <<r[1] \div g, r[2] \div g>>

R(n) == <<n, 1>>
RAdd(a, b) == Norm(<<a[1] * b[2] + b[1] * a[2], a[2] * b[2]>>)
RNeg(a) == <<-a[1], a[2]>>
RSub(a, b) == RAdd(a, RNeg(b))
RMul(a, b) == Norm(<<a[1] * b[1], a[2] * b[2]>>)
RDivInt(a, k) == Norm(<<a[1], a[2] * k>>)
RLe(a, b) == a[1] * b[2] <= b[1] * a[2]
RLt(a, b) == a[1] * b[2] < b[1] * a[2]
IsNum(v) == v # NaN /\ v # Inf

RECURSIVE SumR(_, _, _)
SumR(x, lo, hi) == IF lo > hi THEN R(0) ELSE RAdd(x[hi], SumR(x, lo, hi - 1))

-----------------------------------------------------------------------------
(* pandas Series operations used by the indicators *)

Series(d, column) == [i \in 1..Len(d[column]) |-> R(d[column][i])]

(* Series.rolling(window=w).mean(): NaN until the window is full *)
rolling_mean(x, w) ==
    [i \in 1..Len(x) |->
        IF i < w \/ \E j \in (i - w + 1)..i : x[j] = NaN
        THEN NaN
        ELSE RDivInt(SumR(x, i - w + 1, i), w)]

(* Series.rolling(window=w).std() squared: the sample variance (ddof = 1), *)
(* NaN until the window is full and for a window of one observation        *)
rolling_var(x, w) ==
    [i \in 1..Len(x) |->
        IF i < w \/ w < 2 \/ \E j \in (i - w + 1)..i : x[j] = NaN
        THEN NaN
        ELSE LET m  == RDivInt(SumR(x, i - w + 1, i), w)
                 sq == [j \in 1..Len(x) |->
                          IF j \in (i - w + 1)..i
                          THEN RMul(RSub(x[j], m), RSub(x[j], m)) ELSE R(0)]
             IN  RDivInt(SumR(sq, i - w + 1, i), w - 1)]

(* Series.ewm(span=span, adjust=False).mean() *)
RECURSIVE ewm_at(_, _, _)
ewm_at(x, span, i) ==
    IF i = 1 THEN x[1]
    ELSE RAdd(RMul(<<2, span + 1>>, x[i]),
              RMul(<<span - 1, span + 1>>, ewm_at(x, span, i - 1)))

ewm_mean(x, span) == [i \in 1..Len(x) |-> ewm_at(x, span, i)]

(* Series.diff() *)
diff(x) == [i \in 1..Len(x) |-> IF i = 1 THEN NaN ELSE RSub(x[i], x[i - 1])]

(* delta.where(delta > 0, 0): NaN > 0 is False, so NaN becomes 0 *)
where_pos(delta) ==
    [i \in 1..Len(delta) |->
        IF delta[i] # NaN /\ RLt(R(0), delta[i]) THEN delta[i] ELSE R(0)]

(* -delta.where(delta < 0, 0) *)
neg_where_neg(delta) ==
    [i \in 1..Len(delta) |->
        IF delta[i] # NaN /\ RLt(delta[i], R(0)) THEN RNeg(delta[i]) ELSE R(0)]

(* gain / loss in IEEE arithmetic: x/0 is inf, 0/0 is NaN *)
series_div(a, b) ==
    [i \in 1..Len(a) |->
        IF a[i] = NaN \/ b[i] = NaN THEN NaN
        ELSE IF b[i][1] = 0 THEN (IF a[i][1] = 0 THEN NaN ELSE Inf)
        ELSE Norm(<<a[i][1] * b[i][2], a[i][2] * b[i][1]>>)]

(* 100 - (100 / (1 + rs)) *)
rsi_of(rs) ==
    [i \in 1..Len(rs) |->
        IF rs[i] = NaN THEN NaN
        ELSE IF rs[i] = Inf THEN R(100)
        ELSE LET one_plus == RAdd(R(1), rs[i])
             IN  RSub(R(100), Norm(<<100 * one_plus[2], one_plus[1]>>))]

series_sub(a, b) ==
    [i \in 1..Len(a) |-> IF a[i] = NaN \/ b[i] = NaN THEN NaN ELSE RSub(a[i], b[i])]

(* ma + sign * (std * std_dev), std kept as the square root of var; the   *)
(* value is NaN when ma or var is                                         *)
band(ma, var, std_dev, sign) ==
    [i \in 1..Len(ma) |->
        [ma |-> ma[i], var |-> var[i], k |-> sign * std_dev]]

-----------------------------------------------------------------------------
(* plotly figures *)

(* go.Figure(): no subplot grid (rows = 0) *)
Figure == [kind |-> "Figure", rows |-> 0, traces |-> <<>>, hlines |-> <<>>,
           rangeslider |-> FALSE, dragmode |-> None, title |-> None,
           xaxis_title |-> None, yaxis_title |-> None, yaxis2_title |-> None]

(* make_subplots(rows=rows, cols=1, ...) *)
make_subplots(rows) == [Figure EXCEPT !.rows = rows]

(* the y of a trace: a column of the data, or a computed series *)
ColumnY(column) == [col |-> column, vals |-> <<>>]
SeriesY(vals) == [col |-> None, vals |-> vals]

(* go.Candlestick / go.Scatter / go.Bar; a trace without a row lies on the *)
(* first pair of axes                                                      *)
Trace(type, name, y, style) ==
    [type |-> type, name |-> name, y |-> y, style |-> style,
     row |-> 1, hover |-> FALSE]

(* fig.add_trace(trace, row=row, col=1); row = 0 stands for no row given. *)
(* A row needs a subplot grid, and must lie inside it.                     *)
fig_add_trace(fig, trace, row) ==
    IF row = 0
    THEN [fig |-> [fig EXCEPT !.traces = Append(@, trace)], err |-> "none"]
    ELSE IF fig.rows = 0 \/ row > fig.rows
    THEN [fig |-> fig, err |-> "Exception"]
    ELSE [fig |-> [fig EXCEPT !.traces = Append(@, [trace EXCEPT !.row = row])],
          err |-> "none"]

(* fig.add_hline(y=y, ..., row=row, col=1) *)
fig_add_hline(fig, y, row) ==
    IF fig.rows = 0 \/ row > fig.rows
    THEN [fig |-> fig, err |-> "Exception"]
    ELSE [fig |-> [fig EXCEPT !.hlines = Append(@, [y |-> y, row |-> row])],
          err |-> "none"]

-----------------------------------------------------------------------------
(* charts/base.py *)

(* Chart.__init__ *)
Chart(d, title) == [kind |-> "Chart", data |-> d, title |-> title, fig |-> NoFig]

Ok(c, ret) == [chart |-> c, err |-> "none", ret |-> ret]
Raise(c, e) == [chart |-> c, err |-> e, ret |-> "raised"]

(* create_candlestick adding the volume bars without looking for the column *)
create_candlestick_op_any_columns(d, title, volume, indicators) ==
    LET rows == IF volume THEN 2 ELSE 1
        fig0 == make_subplots(rows)
        r1   == fig_add_trace(fig0, Trace("Candlestick", "OHLC", ColumnY("OHLC"), None), 1)
        r2   == IF volume
                THEN fig_add_trace(r1.fig, Trace("Bar", "Volume", ColumnY("Volume"), None), 2)
                ELSE r1
        fig3 == [r2.fig EXCEPT !.title = title,
                               !.yaxis_title = "Price",
                               !.yaxis2_title = IF volume THEN "Volume" ELSE None,
                               !.rangeslider = FALSE]
    IN  Ok([Chart(d, title) EXCEPT !.fig = fig3], "new chart")

create_candlestick_op(d, title, volume, indicators) ==
    LET rows == IF volume THEN 2 ELSE 1
        fig0 == make_subplots(rows)
        r1   == fig_add_trace(fig0, Trace("Candlestick", "OHLC", ColumnY("OHLC"), None), 1)
        r2   == IF volume /\ \E k \in 1..Len(d.columns) : d.columns[k] = "Volume"
                THEN fig_add_trace(r1.fig, Trace("Bar", "Volume", ColumnY("Volume"), None), 2)
                ELSE r1
        fig3 == [r2.fig EXCEPT !.title = title,
                               !.yaxis_title = "Price",
                               !.yaxis2_title = IF volume THEN "Volume" ELSE None,
                               !.rangeslider = FALSE]
    IN  IF r1.err # "none" THEN Raise(NoChart, r1.err)
        ELSE IF r2.err # "none" THEN Raise(NoChart, r2.err)
        ELSE Ok([Chart(d, title) EXCEPT !.fig = fig3], "new chart")

(* the body shared by create_line, create_bar, create_area, create_scatter: *)
(* one trace of data[y] (or the first column) on a plain go.Figure()        *)
create_plain_op(d, title, x, y, type, style) ==
    LET ycol == IF y # None THEN y ELSE d.columns[1]
        r1   == fig_add_trace(Figure, Trace(type, ycol, ColumnY(ycol), style), 0)
        fig2 == [r1.fig EXCEPT !.title = title, !.xaxis_title = x,
                               !.yaxis_title = y]
    IN  Ok([Chart(d, title) EXCEPT !.fig = fig2], "new chart")

create_line_op(d, title, x, y) == create_plain_op(d, title, x, y, "Scatter", "lines")
create_bar_op(d, title, x, y) == create_plain_op(d, title, x, y, "Bar", None)
create_area_op(d, title, x, y) == create_plain_op(d, title, x, y, "Scatter", "tozeroy")
create_scatter_op(d, title, x, y) == create_plain_op(d, title, x, y, "Scatter", "markers")

add_range_slider_op(c) ==
    IF truthy(c.fig) THEN Ok([c EXCEPT !.fig.rangeslider = TRUE], "self")
    ELSE Ok(c, "self")

add_zoom_pan_op(c) ==
    IF truthy(c.fig) THEN Ok([c EXCEPT !.fig.dragmode = "zoom"], "self")
    ELSE Ok(c, "self")

add_tooltips_op(c) ==
    IF truthy(c.fig)
    THEN Ok([c EXCEPT !.fig.traces =
                [k \in 1..Len(@) |-> [@[k] EXCEPT !.hover = TRUE]]], "self")
    ELSE Ok(c, "self")

(* show: the number of times the figure has been displayed *)
show_op(c, n) == IF truthy(c.fig) THEN n + 1 ELSE n

(* write_html without the test of self.fig *)
write_html_op_unguarded(c, fs, filename) == fs \cup {filename}

(* write_html: the files written *)
write_html_op(c, fs, filename) == IF truthy(c.fig) THEN fs \cup {filename} ELSE fs

-----------------------------------------------------------------------------
(* indicators/technical.py *)

(* the names its imports bind at module level: pandas, numpy, typing and   *)
(* Chart; plotly.graph_objects is not imported, so `go` is unbound         *)
technical_globals == {"pd", "np", "Optional", "Union", "Tuple", "Chart"}

(* evaluating go.Scatter(...) / go.Bar(...) *)
go_bound == "go" \in technical_globals

add_sma_op(c, period, column) ==
    IF ~truthy(c.fig) THEN Ok(c, "chart")
    ELSE LET sma == rolling_mean(Series(c.data, column), period)
         IN  IF ~go_bound THEN Raise(c, "NameError")
             ELSE LET r == fig_add_trace(c.fig,
                              Trace("Scatter", "SMA " \o ToString(period),
                                    SeriesY(sma), "line"), 0)
                  IN  Ok([c EXCEPT !.fig = r.fig], "chart")

add_ema_op(c, period, column) ==
    IF ~truthy(c.fig) THEN Ok(c, "chart")
    ELSE LET ema == ewm_mean(Series(c.data, column), period)
         IN  IF ~go_bound THEN Raise(c, "NameError")
             ELSE LET r == fig_add_trace(c.fig,
                              Trace("Scatter", "EMA " \o ToString(period),
                                    SeriesY(ema), "line"), 0)
                  IN  Ok([c EXCEPT !.fig = r.fig], "chart")

rsi_series(d, period, column) ==
    LET delta == diff(Series(d, column))
        gain  == rolling_mean(where_pos(delta), period)
        loss  == rolling_mean(neg_where_neg(delta), period)
        rs    == series_div(gain, loss)
    IN  rsi_of(rs)

add_rsi_op(c, period, column) ==
    IF ~truthy(c.fig) THEN Ok(c, "chart")
    ELSE LET rsi == rsi_series(c.data, period, column)
         IN  IF ~go_bound THEN Raise(c, "NameError")
             ELSE LET r1 == fig_add_trace(c.fig,
                               Trace("Scatter", "RSI", SeriesY(rsi), "line"), 2)
                      r2 == fig_add_hline(r1.fig, 70, 2)
                      r3 == fig_add_hline(r2.fig, 30, 2)
                  IN  IF r1.err # "none" THEN Raise([c EXCEPT !.fig = r1.fig], r1.err)
                      ELSE IF r2.err # "none" THEN Raise([c EXCEPT !.fig = r2.fig], r2.err)
                      ELSE IF r3.err # "none" THEN Raise([c EXCEPT !.fig = r3.fig], r3.err)
                      ELSE Ok([c EXCEPT !.fig = r3.fig], "chart")

macd_series(d, fast_period, slow_period, signal_period, column) ==
    LET exp1   == ewm_mean(Series(d, column), fast_period)
        exp2   == ewm_mean(Series(d, column), slow_period)
        macd   == series_sub(exp1, exp2)
        signal == ewm_mean(macd, signal_period)
        hist   == series_sub(macd, signal)
    IN  [macd |-> macd, signal |-> signal, hist |-> hist]

add_macd_op(c, fast_period, slow_period, signal_period, column) ==
    IF ~truthy(c.fig) THEN Ok(c, "chart")
    ELSE LET m == macd_series(c.data, fast_period, slow_period, signal_period, column)
         IN  IF ~go_bound THEN Raise(c, "NameError")
             ELSE LET r1 == fig_add_trace(c.fig,
                               Trace("Scatter", "MACD", SeriesY(m.macd), "line"), 2)
                      r2 == fig_add_trace(r1.fig,
                               Trace("Scatter", "Signal", SeriesY(m.signal), "line"), 2)
                      r3 == fig_add_trace(r2.fig,
                               Trace("Bar", "Histogram", SeriesY(m.hist), None), 2)
                  IN  IF r1.err # "none" THEN Raise([c EXCEPT !.fig = r1.fig], r1.err)
                      ELSE IF r2.err # "none" THEN Raise([c EXCEPT !.fig = r2.fig], r2.err)
                      ELSE IF r3.err # "none" THEN Raise([c EXCEPT !.fig = r3.fig], r3.err)
                      ELSE Ok([c EXCEPT !.fig = r3.fig], "chart")

bollinger_series(d, period, std_dev, column) ==
    LET ma  == rolling_mean(Series(d, column), period)
        var == rolling_var(Series(d, column), period)
    IN  [ma |-> ma, upper |-> band(ma, var, std_dev, 1),
         lower |-> band(ma, var, std_dev, -1)]

add_bollinger_bands_op(c, period, std_dev, column) ==
    IF ~truthy(c.fig) THEN Ok(c, "chart")
    ELSE LET b == bollinger_series(c.data, period, std_dev, column)
         IN  IF ~go_bound THEN Raise(c, "NameError")
             ELSE LET r1 == fig_add_trace(c.fig,
                               Trace("Scatter", "Upper Band", SeriesY(b.upper), "dash"), 0)
                      r2 == fig_add_trace(r1.fig,
                               Trace("Scatter", "Lower Band", SeriesY(b.lower), "tonexty"), 0)
                  IN  Ok([c EXCEPT !.fig = r2.fig], "chart")

-----------------------------------------------------------------------------
(* The program: a DataFrame, at most one chart built from it, and calls on *)
(* that chart until one raises.                                            *)

OHLC == <<"Open", "High", "Low", "Close">>
OHLCV == <<"Open", "High", "Low", "Close", "Volume">>

DataFrames ==
    {[columns |-> cols, Close |-> cl] :
        cols \in {OHLC, OHLCV}, cl \in [1..DataLen -> 1..MaxPrice]}

Init ==
    /\ data \in DataFrames
    /\ chart = NoChart
    /\ err = "none"
    /\ files = {}
    /\ shown = 0
    /\ last = NoCall
    /\ pc = 0

Call(op, args, r) ==
    /\ chart' = r.chart
    /\ err' = r.err
    /\ last' = [op |-> op, args |-> args, ret |-> r.ret]
    /\ UNCHANGED <<data, files, shown, pc>>

Chart_init(title) ==
    /\ err = "none" /\ chart = NoChart
    /\ Call("Chart", [title |-> title], Ok(Chart(data, title), "new chart"))

create_candlestick(title, volume, indicators) ==
    /\ err = "none" /\ chart = NoChart
    /\ Call("create_candlestick",
            [title |-> title, volume |-> volume, indicators |-> indicators],
            create_candlestick_op(data, title, volume, indicators))

create_line(title, y) ==
    /\ err = "none" /\ chart = NoChart
    /\ Call("create_line", [title |-> title, y |-> y],
            create_line_op(data, title, None, y))

create_bar(title, y) ==
    /\ err = "none" /\ chart = NoChart
    /\ Call("create_bar", [title |-> title, y |-> y],
            create_bar_op(data, title, None, y))

create_area(title, y) ==
    /\ err = "none" /\ chart = NoChart
    /\ Call("create_area", [title |-> title, y |-> y],
            create_area_op(data, title, None, y))

create_scatter(title, y) ==
    /\ err = "none" /\ chart = NoChart
    /\ Call("create_scatter", [title |-> title, y |-> y],
            create_scatter_op(data, title, None, y))

add_sma(period, column) ==
    /\ err = "none" /\ chart # NoChart
    /\ Call("add_sma", [period |-> period], add_sma_op(chart, period, column))

add_ema(period, column) ==
    /\ err = "none" /\ chart # NoChart
    /\ Call("add_ema", [period |-> period], add_ema_op(chart, period, column))

add_rsi(period, column) ==
    /\ err = "none" /\ chart # NoChart
    /\ Call("add_rsi", [period |-> period], add_rsi_op(chart, period, column))

add_macd(fast_period, slow_period, signal_period, column) ==
    /\ err = "none" /\ chart # NoChart
    /\ Call("add_macd",
            [fast |-> fast_period, slow |-> slow_period, signal |-> signal_period],
            add_macd_op(chart, fast_period, slow_period, signal_period, column))

add_bollinger_bands(period, std_dev, column) ==
    /\ err = "none" /\ chart # NoChart
    /\ Call("add_bollinger_bands", [period |-> period, std_dev |-> std_dev],
            add_bollinger_bands_op(chart, period, std_dev, column))

add_range_slider ==
    /\ err = "none" /\ chart # NoChart
    /\ Call("add_range_slider", <<>>, add_range_slider_op(chart))

add_zoom_pan ==
    /\ err = "none" /\ chart # NoChart
    /\ Call("add_zoom_pan", <<>>, add_zoom_pan_op(chart))

add_tooltips ==
    /\ err = "none" /\ chart # NoChart
    /\ Call("add_tooltips", <<>>, add_tooltips_op(chart))

show ==
    /\ err = "none" /\ chart # NoChart
    /\ shown < MaxShown
    /\ shown' = show_op(chart, shown)
    /\ last' = [op |-> "show", args |-> <<>>, ret |-> None]
    /\ UNCHANGED <<data, chart, err, files, pc>>

write_html(filename) ==
    /\ err = "none" /\ chart # NoChart
    /\ files' = write_html_op(chart, files, filename)
    /\ last' = [op |-> "write_html", args |-> [filename |-> filename], ret |-> None]
    /\ UNCHANGED <<data, chart, err, shown, pc>>

Next ==
    \/ \E t \in Titles : Chart_init(t)
    \/ \E t \in Titles, v \in BOOLEAN, L \in IndicatorLists : create_candlestick(t, v, L)
    \/ \E t \in Titles, y \in {None, "Close"} : create_line(t, y)
    \/ \E t \in Titles, y \in {None, "Close"} : create_bar(t, y)
    \/ \E t \in Titles, y \in {None, "Close"} : create_area(t, y)
    \/ \E t \in Titles, y \in {None, "Close"} : create_scatter(t, y)
    \/ \E p \in Periods, col \in Columns : add_sma(p, col)
    \/ \E p \in Periods, col \in Columns : add_ema(p, col)
    \/ \E p \in Periods, col \in Columns : add_rsi(p, col)
    \/ \E f \in Periods, sl \in Periods, sg \in Periods, col \in Columns :
          add_macd(f, sl, sg, col)
    \/ \E p \in Periods, k \in StdDevs, col \in Columns : add_bollinger_bands(p, k, col)
    \/ add_range_slider
    \/ add_zoom_pan
    \/ add_tooltips
    \/ show
    \/ \E f \in Filenames : write_html(f)

Spec == Init /\ [][Next]_vars

-----------------------------------------------------------------------------
(* examples/app.py: main(), one statement per step, up to the saved HTML   *)
(* (the statements after it build separate charts from ml/visualizations)  *)

MainLen == 9
MainTitle == "Apple Inc. (AAPL) Stock Price"
MainFile == "apple_stock_analysis.html"

(* the defaults of the indicators' keyword arguments *)
SmaPeriod == 20
RsiPeriod == 14
MacdFast == 12
MacdSlow == 26
MacdSignal == 9

(* yf.download(...): an OHLCV frame *)
InitMain ==
    /\ data \in {[columns |-> OHLCV, Close |-> cl] :
                    cl \in [1..MainDataLen -> 1..MaxPrice]}
    /\ chart = NoChart
    /\ err = "none"
    /\ files = {}
    /\ shown = 0
    /\ last = NoCall
    /\ pc = 0

main_op(n, c) ==
    CASE n = 1 -> create_candlestick_op(data, MainTitle, TRUE, <<>>)
      [] n = 2 -> add_sma_op(c, SmaPeriod, "Close")
      [] n = 3 -> add_rsi_op(c, RsiPeriod, "Close")
      [] n = 4 -> add_macd_op(c, MacdFast, MacdSlow, MacdSignal, "Close")
      [] n = 5 -> add_range_slider_op(c)
      [] n = 6 -> add_zoom_pan_op(c)
      [] n = 7 -> add_tooltips_op(c)
      [] OTHER -> Ok(c, None)

main ==
    /\ err = "none" /\ pc < MainLen
    /\ LET r == main_op(pc + 1, chart)
       IN  /\ chart' = r.chart
           /\ err' = r.err
           /\ pc' = IF r.err = "none" THEN pc + 1 ELSE pc
           /\ last' = [op |-> "main", args |-> [line |-> pc + 1], ret |-> r.ret]
    /\ shown' = IF pc + 1 = 8 THEN show_op(chart, shown) ELSE shown
    /\ files' = IF pc + 1 = 9 THEN write_html_op(chart, files, MainFile) ELSE files
    /\ UNCHANGED data

SpecMain == InitMain /\ [][main]_vars

-----------------------------------------------------------------------------
(* Properties *)

RECURSIVE ISum(_, _, _)
ISum(x, lo, hi) == IF lo > hi THEN 0 ELSE x[hi] + ISum(x, lo, hi - 1)

Names(c) == [k \in 1..Len(c.fig.traces) |-> c.fig.traces[k].name]
HasVolumeColumn(d) == \E k \in 1..Len(d.columns) : d.columns[k] = "Volume"

(* the call appended exactly n traces to the figure and kept the others *)
Appended(c, c2, n) ==
    /\ c2.kind = "Chart" /\ truthy(c2.fig)
    /\ Len(c2.fig.traces) = Len(c.fig.traces) + n
    /\ \A k \in 1..Len(c.fig.traces) : c2.fig.traces[k] = c.fig.traces[k]
    /\ c2.data = c.data /\ c2.title = c.title

NewTrace(c, c2, k) == c2.fig.traces[Len(c.fig.traces) + k]

(* C1: add_sma on a chart with a figure returns the same chart with exactly *)
(* one more trace, named 'SMA <period>', whose value is the unweighted mean *)
(* of the last `period` values from position period-1 on and NaN before.    *)
C1_add_sma ==
    [][\A p \in Periods, col \in Columns :
         (add_sma(p, col) /\ truthy(chart.fig)) =>
            /\ err' = "none" /\ last'.ret = "chart"
            /\ Appended(chart, chart', 1)
            /\ LET t == NewTrace(chart, chart', 1)
               IN  /\ t.name = "SMA " \o ToString(p)
                   /\ Len(t.y.vals) = Len(data[col])
                   /\ \A i \in 1..Len(data[col]) :
                        IF i < p THEN t.y.vals[i] = NaN
                        ELSE /\ t.y.vals[i] # NaN
                             /\ t.y.vals[i][1] * p
                                  = t.y.vals[i][2] * ISum(data[col], i - p + 1, i)]_vars

IMin(x, i) == CHOOSE m \in {x[j] : j \in 1..i} : \A j \in 1..i : m <= x[j]
IMax(x, i) == CHOOSE m \in {x[j] : j \in 1..i} : \A j \in 1..i : m >= x[j]

(* e[0] = x[0], e[i] = a*x[i] + (1-a)*e[i-1], a = 2/(span+1) *)
IsEma(e, x, span) ==
    /\ Len(e) = Len(x)
    /\ \A i \in 1..Len(x) :
         /\ IsNum(e[i])
         /\ IF i = 1 THEN e[1] = x[1]
            ELSE e[i] = RAdd(RMul(<<2, span + 1>>, x[i]),
                             RMul(<<span - 1, span + 1>>, e[i - 1]))

(* C2: add_ema on a chart with a figure adds exactly one trace, named       *)
(* 'EMA <period>', that follows the adjust=False recursion; every position *)
(* is defined and lies between the minimum and maximum of x[0..i].         *)
C2_add_ema ==
    [][\A p \in Periods, col \in Columns :
         (add_ema(p, col) /\ truthy(chart.fig)) =>
            /\ err' = "none" /\ last'.ret = "chart"
            /\ Appended(chart, chart', 1)
            /\ LET t == NewTrace(chart, chart', 1)
               IN  /\ t.name = "EMA " \o ToString(p)
                   /\ IsEma(t.y.vals, Series(data, col), p)
                   /\ \A i \in 1..Len(data[col]) :
                        /\ RLe(R(IMin(data[col], i)), t.y.vals[i])
                        /\ RLe(t.y.vals[i], R(IMax(data[col], i)))]_vars

(* the sums over the last `period` price changes ending at position i of   *)
(* max(change, 0) and of max(-change, 0)                                   *)
Gains(x, period, i) ==
    ISum([j \in 1..Len(x) |-> IF j > 1 /\ x[j] > x[j - 1] THEN x[j] - x[j - 1] ELSE 0],
         i - period + 1, i)
Losses(x, period, i) ==
    ISum([j \in 1..Len(x) |-> IF j > 1 /\ x[j] < x[j - 1] THEN x[j - 1] - x[j] ELSE 0],
         i - period + 1, i)

(* C3: add_rsi on a chart with a figure adds one trace named 'RSI' whose    *)
(* value where a full window of `period` changes exists is                 *)
(* 100 - 100/(1 + G/L), and reference lines at 70 and 30.                  *)
C3_add_rsi ==
    [][\A p \in Periods, col \in Columns :
         (add_rsi(p, col) /\ truthy(chart.fig)) =>
            /\ err' = "none"
            /\ Appended(chart, chart', 1)
            /\ LET t == NewTrace(chart, chart', 1)
                   x == data[col]
               IN  /\ t.name = "RSI"
                   /\ \A i \in (p + 1)..Len(x) :
                        LET G == Gains(x, p, i)
                            L == Losses(x, p, i)
                        IN  IF L = 0
                            THEN t.y.vals[i] = (IF G = 0 THEN NaN ELSE R(100))
                            ELSE t.y.vals[i] = Norm(<<100 * G, G + L>>)
            /\ \E k \in 1..Len(chart'.fig.hlines) : chart'.fig.hlines[k].y = 70
            /\ \E k \in 1..Len(chart'.fig.hlines) : chart'.fig.hlines[k].y = 30]_vars

(* C4: add_macd on a chart with a figure adds exactly three traces, 'MACD', *)
(* 'Signal', 'Histogram' in this order, with MACD = EMA_fast - EMA_slow,   *)
(* Signal = EMA_signal(MACD), Histogram = MACD - Signal, all 0 at the      *)
(* first position.                                                         *)
C4_add_macd ==
    [][\A f \in Periods, sl \in Periods, sg \in Periods, col \in Columns :
         (add_macd(f, sl, sg, col) /\ truthy(chart.fig)) =>
            /\ err' = "none"
            /\ Appended(chart, chart', 3)
            /\ LET m  == NewTrace(chart, chart', 1)
                   s  == NewTrace(chart, chart', 2)
                   h  == NewTrace(chart, chart', 3)
                   x  == Series(data, col)
                   ef == ewm_mean(x, f)
                   es == ewm_mean(x, sl)
               IN  /\ <<m.name, s.name, h.name>> = <<"MACD", "Signal", "Histogram">>
                   /\ IsEma(ef, x, f) /\ IsEma(es, x, sl)
                   /\ \A i \in 1..Len(x) : m.y.vals[i] = RSub(ef[i], es[i])
                   /\ IsEma(s.y.vals, m.y.vals, sg)
                   /\ \A i \in 1..Len(x) : h.y.vals[i] = RSub(m.y.vals[i], s.y.vals[i])
                   /\ m.y.vals[1] = R(0) /\ s.y.vals[1] = R(0) /\ h.y.vals[1] = R(0)]_vars

(* C5: add_bollinger_bands on a chart with a figure adds exactly two        *)
(* traces, 'Upper Band' then 'Lower Band', with upper = ma + std_dev*sd    *)
(* and lower = ma - std_dev*sd wherever the window is full: symmetric      *)
(* about the moving average, lower <= ma <= upper for std_dev >= 0.        *)
C5_add_bollinger_bands ==
    [][\A p \in Periods, sd \in StdDevs, col \in Columns :
         (add_bollinger_bands(p, sd, col) /\ truthy(chart.fig)) =>
            /\ err' = "none"
            /\ Appended(chart, chart', 2)
            /\ LET u  == NewTrace(chart, chart', 1)
                   l  == NewTrace(chart, chart', 2)
                   ma == rolling_mean(Series(data, col), p)
               IN  /\ <<u.name, l.name>> = <<"Upper Band", "Lower Band">>
                   /\ \A i \in p..Len(data[col]) :
                        /\ u.y.vals[i].ma = ma[i] /\ l.y.vals[i].ma = ma[i]
                        /\ u.y.vals[i].var = l.y.vals[i].var
                        /\ u.y.vals[i].k = sd /\ l.y.vals[i].k = -sd]_vars

(* C6: create_candlestick(data, indicators=L) with a non-empty L returns a *)
(* figure that holds, besides OHLC (and Volume), the listed indicators'    *)
(* traces.                                                                 *)
C6_candlestick_indicators ==
    (last.op = "create_candlestick" /\ last.args.indicators # <<>>) =>
        /\ err = "none"
        /\ Len(chart.fig.traces) >
             1 + (IF last.args.volume /\ HasVolumeColumn(data) THEN 1 ELSE 0)

C8_main_completes ==
    /\ err = "none"
    /\ pc = MainLen =>
         Names(chart) = <<"OHLC", "Volume", "SMA 20", "RSI", "MACD", "Signal",
                          "Histogram">>

(* the last n traces of c2 lie in a row that holds no other trace *)
OwnPanel(c2, n) ==
    LET tr  == c2.fig.traces
        new == (Len(tr) - n + 1)..Len(tr)
    IN  /\ Len(tr) >= n
        /\ \A k \in new : tr[k].row = tr[Len(tr)].row
        /\ \A k \in 1..Len(tr) : tr[k].row = tr[Len(tr)].row => k \in new

(* C9: add_rsi and add_macd on any chart with a figure do not raise and put *)
(* the indicator's traces in a panel that holds no other trace.            *)
C9_own_subplot ==
    [][/\ \A p \in Periods, col \in Columns :
            (add_rsi(p, col) /\ truthy(chart.fig)) =>
                (err' = "none" /\ Appended(chart, chart', 1) /\ OwnPanel(chart', 1))
       /\ \A f \in Periods, sl \in Periods, sg \in Periods, col \in Columns :
            (add_macd(f, sl, sg, col) /\ truthy(chart.fig)) =>
                (err' = "none" /\ Appended(chart, chart', 3) /\ OwnPanel(chart', 3))]_vars

IndicatorOps == {"add_sma", "add_ema", "add_rsi", "add_macd", "add_bollinger_bands"}
FluentOps == {"add_range_slider", "add_zoom_pan", "add_tooltips"}

(* C10: on a Chart whose fig is None every operation raises nothing and     *)
(* changes nothing: the indicators return the same chart, the fluent       *)
(* methods return self, show and write_html return None, and no file is    *)
(* written.                                                                *)
C10_no_figure_noop ==
    [][(chart.kind = "Chart" /\ ~truthy(chart.fig)) =>
          /\ chart' = chart /\ err' = "none"
          /\ files' = files /\ shown' = shown /\ data' = data
          /\ last'.op \in IndicatorOps => last'.ret = "chart"
          /\ last'.op \in FluentOps => last'.ret = "self"
          /\ last'.op \in {"show", "write_html"} => last'.ret = None]_vars

C10_witness ==
    /\ chart.kind = "Chart" /\ ~truthy(chart.fig)
    /\ last.op = "write_html" /\ files = {} /\ err = "none"

====
